---- MODULE Spec2Model ----
(***************************************************************************)
(* A model of amazon_scraper.py: the main pipeline                         *)
(* (fetch -> extract -> display -> save) and the per-entry extraction of   *)
(* name, URL, price and availability done by extract_product_data.         *)
(*                                                                         *)
(* Python strings are TLA+ strings; the string methods the code calls      *)
(* (strip, split/join, lower, startswith, "in", slicing) are operators     *)
(* that compute what the methods compute.                                  *)
(***************************************************************************)
EXTENDS Integers, Sequences, FiniteSets, TLC

(***************************************************************************)
(* Program constants.                                                      *)
(***************************************************************************)
MAX_PRODUCTS == 10

MAX_NAME_LENGTH == 70

\* the literal 30 of `len(availability) > 30` and `availability[:30]`
MaxAvailLength == 30

\* the literal 3 of `len(text) > 3`
MinLength == 3

Ellipsis == "..."

NameSentinel == "N/A"

PriceSentinel == "N/A"

UrlSentinel == "No URL available"

AvailSentinel == "No availability info"

SiteOrigin == "https://www.amazon.com"

name_selectors ==
  << ".a-size-medium.a-color-base.a-text-normal",
     ".a-link-normal .a-text-normal",
     "h2 a span",
     ".a-size-base-plus.a-color-base.a-text-normal",
     "h2 .a-link-normal" >>

url_selectors ==
  << "h2 a.a-link-normal",
     ".a-link-normal.s-underline-text",
     ".a-link-normal.s-no-outline" >>

availability_selectors ==
  << ".a-color-success",
     ".a-color-price",
     ".a-color-base.a-text-bold",
     ".a-box-inner .a-section span",
     ".a-spacing-small span.a-text-bold",
     "#availability span",
     ".a-section.a-spacing-none.a-spacing-top-micro .a-row" >>

keywords ==
  << "stock", "deliver", "ship", "arrive", "available", "sold", "unavailable" >>

(***************************************************************************)
(* Bounds of the model.                                                    *)
(***************************************************************************)
\* longest patterned document (number of entry nodes)
MaxDocLen == 25

\* longest document enumerated over every sequence of the entry pool
MaxSmallDoc == 3

\* most nodes one availability selector matches in the enumerated entries
MaxCands == 2

\* longest product name
MaxNameLen == 75

(***************************************************************************)
(* Python string methods.                                                  *)
(***************************************************************************)
Char(s, i) == SubSeq(s, i, i)

\* str.isspace for the characters a page carries
IsSpace(c) == c \in {" ", "\t", "\n", "\r"}

RECURSIVE LStrip(_)
LStrip(s) ==
  IF s = "" THEN ""
  ELSE IF IsSpace(Char(s, 1)) THEN LStrip(SubSeq(s, 2, Len(s)))
  ELSE s

RECURSIVE RStrip(_)
RStrip(s) ==
  IF s = "" THEN ""
  ELSE IF IsSpace(Char(s, Len(s))) THEN RStrip(SubSeq(s, 1, Len(s) - 1))
  ELSE s

\* str.strip()
Strip(s) == RStrip(LStrip(s))

\* the end of the whitespace-free word that starts at position i
RECURSIVE WordEnd(_, _)
WordEnd(s, i) ==
  IF i < Len(s) /\ ~IsSpace(Char(s, i + 1)) THEN WordEnd(s, i + 1) ELSE i

\* str.split(): the maximal whitespace-free words of s from position i on
RECURSIVE SplitFrom(_, _)
SplitFrom(s, i) ==
  IF i > Len(s) THEN << >>
  ELSE IF IsSpace(Char(s, i)) THEN SplitFrom(s, i + 1)
  ELSE LET e == WordEnd(s, i)
       IN  << SubSeq(s, i, e) >> \o SplitFrom(s, e + 1)

Split(s) == SplitFrom(s, 1)

\* sep.join(words)
RECURSIVE Join(_, _)
Join(sep, words) ==
  IF words = << >> THEN ""
  ELSE IF Len(words) = 1 THEN words[1]
  ELSE words[1] \o sep \o Join(sep, Tail(words))

LowerChar(c) ==
  CASE c = "A" -> "a" [] c = "B" -> "b" [] c = "C" -> "c" [] c = "D" -> "d"
    [] c = "E" -> "e" [] c = "F" -> "f" [] c = "G" -> "g" [] c = "H" -> "h"
    [] c = "I" -> "i" [] c = "J" -> "j" [] c = "K" -> "k" [] c = "L" -> "l"
    [] c = "M" -> "m" [] c = "N" -> "n" [] c = "O" -> "o" [] c = "P" -> "p"
    [] c = "Q" -> "q" [] c = "R" -> "r" [] c = "S" -> "s" [] c = "T" -> "t"
    [] c = "U" -> "u" [] c = "V" -> "v" [] c = "W" -> "w" [] c = "X" -> "x"
    [] c = "Y" -> "y" [] c = "Z" -> "z" [] OTHER -> c

\* str.lower()
RECURSIVE Lower(_)
Lower(s) ==
  IF s = "" THEN ""
  ELSE LowerChar(Char(s, 1)) \o Lower(SubSeq(s, 2, Len(s)))

\* `sub in s`
Contains(s, sub) ==
  \E i \in 1..(Len(s) - Len(sub) + 1) : SubSeq(s, i, i + Len(sub) - 1) = sub

\* s.startswith(prefix)
StartsWith(s, prefix) ==
  Len(s) >= Len(prefix) /\ SubSeq(s, 1, Len(prefix)) = prefix

\* s[:n]
Prefix(s, n) == IF Len(s) <= n THEN s ELSE SubSeq(s, 1, n)

(***************************************************************************)
(* What the selectors find in one entry node (one element of               *)
(* product_items).  For each selector of a field the entry tells what      *)
(* select_one / select returns on it:                                      *)
(*   name[k]   m: an element matched; text: its .text                      *)
(*   url[k]    m: an element matched; has: it has an href; href: the value *)
(*   price     m, text as for name                                         *)
(*   avail[k]  raises: item.select raises; texts: the .text of every       *)
(*             matched node, in document order                             *)
(*   throwAt   the statement of the loop body at which processing this     *)
(*             entry raises an Exception ("none": it does not)             *)
(***************************************************************************)
NoElem == [m |-> FALSE, text |-> ""]

Elem(t) == [m |-> TRUE, text |-> t]

NoLink == [m |-> FALSE, has |-> FALSE, href |-> ""]

BareLink == [m |-> TRUE, has |-> FALSE, href |-> ""]

Link(h) == [m |-> TRUE, has |-> TRUE, href |-> h]

NoNodes == [raises |-> FALSE, texts |-> << >>]

Raising == [raises |-> TRUE, texts |-> << >>]

Nodes(ts) == [raises |-> FALSE, texts |-> ts]

ThrowPoints == {"name", "url", "price", "clean"}

(***************************************************************************)
(* The body of the loop of extract_product_data, field by field.           *)
(***************************************************************************)
\* for selector in name_selectors: ... break      (from selector k on)
\* hit: the selector that matched (0: none); tried: the selectors applied
RECURSIVE ScanName(_, _)
ScanName(item, k) ==
  IF k > Len(name_selectors)
  THEN [value |-> NameSentinel, hit |-> 0, tried |-> k - 1]
  ELSE IF item.name[k].m
       THEN [value |-> Strip(item.name[k].text), hit |-> k, tried |-> k]
       ELSE ScanName(item, k + 1)

\* the rewriting of the href read from the matched link
ResolveUrl(relative_url) ==
  IF StartsWith(relative_url, "/")
  THEN SiteOrigin \o relative_url
  ELSE relative_url

\* ScanUrl stopping at the first matched element, with an href or without
RECURSIVE ScanUrlFirstElement(_, _)
ScanUrlFirstElement(item, k) ==
  IF k > Len(url_selectors)
  THEN [found |-> FALSE, value |-> "", hit |-> 0, tried |-> k - 1]
  ELSE IF item.url[k].m
       THEN [found |-> item.url[k].has, value |-> ResolveUrl(item.url[k].href),
             hit |-> k, tried |-> k]
       ELSE ScanUrlFirstElement(item, k + 1)

\* for selector in url_selectors: ... break       (from selector k on)
\* found = FALSE stands for url = None
RECURSIVE ScanUrl(_, _)
ScanUrl(item, k) ==
  IF k > Len(url_selectors)
  THEN [found |-> FALSE, value |-> "", hit |-> 0, tried |-> k - 1]
  ELSE IF item.url[k].m /\ item.url[k].has
       THEN [found |-> TRUE, value |-> ResolveUrl(item.url[k].href),
             hit |-> k, tried |-> k]
       ELSE ScanUrl(item, k + 1)

\* if not url: url = "No URL available"
FinalUrl(r) ==
  IF ~r.found \/ r.value = "" THEN UrlSentinel ELSE r.value

ExtractPrice(item) ==
  IF item.price.m THEN Strip(item.price.text) ELSE PriceSentinel

\* Accepts without the keyword test
AcceptsAnyLongText(text) == Len(text) > MinLength

\* any(keyword in text.lower() for keyword in keywords) and len(text) > 3
Accepts(text) ==
  /\ \E n \in 1..Len(keywords) : Contains(Lower(text), keywords[n])
  /\ Len(text) > MinLength

\* ScanNodes without the break: the last accepted node wins
RECURSIVE ScanNodesLast(_, _)
ScanNodesLast(texts, j) ==
  IF j > Len(texts) THEN 0
  ELSE LET later == ScanNodesLast(texts, j + 1)
       IN  IF later # 0 THEN later
           ELSE IF Accepts(Strip(texts[j])) THEN j ELSE 0

\* for avail_elem in avail_elems: ... break       (from node j on)
\* the index of the first accepted node, 0 when there is none
RECURSIVE ScanNodes(_, _)
ScanNodes(texts, j) ==
  IF j > Len(texts) THEN 0
  ELSE IF Accepts(Strip(texts[j])) THEN j
  ELSE ScanNodes(texts, j + 1)

\* for selector in availability_selectors: try ... except   (from selector k)
RECURSIVE ScanAvail(_, _)
ScanAvail(item, k) ==
  IF k > Len(availability_selectors)
  THEN [value |-> AvailSentinel, rule |-> 0, node |-> 0, tried |-> k - 1]
  ELSE IF item.avail[k].raises
       THEN ScanAvail(item, k + 1)
       ELSE LET j == ScanNodes(item.avail[k].texts, 1)
            IN  IF j # 0 /\ Strip(item.avail[k].texts[j]) # AvailSentinel
                THEN [value |-> Strip(item.avail[k].texts[j]),
                      rule |-> k, node |-> j, tried |-> k]
                ELSE ScanAvail(item, k + 1)

\* CleanAvailability truncating before it collapses the whitespace
CleanAvailabilityCutFirst(availability) ==
  IF availability # AvailSentinel
  THEN IF Len(availability) > MaxAvailLength
       THEN Join(" ", Split(Prefix(availability, MaxAvailLength))) \o Ellipsis
       ELSE Join(" ", Split(availability))
  ELSE availability

\* Clean up the availability text
CleanAvailability(availability) ==
  IF availability # AvailSentinel
  THEN LET collapsed == Join(" ", Split(availability))
       IN  IF Len(collapsed) > MaxAvailLength
           THEN Prefix(collapsed, MaxAvailLength) \o Ellipsis
           ELSE collapsed
  ELSE availability

\* TruncateName truncating from MAX_NAME_LENGTH characters on
TruncateNameAtLimit(name) ==
  IF Len(name) >= MAX_NAME_LENGTH
  THEN Prefix(name, MAX_NAME_LENGTH) \o Ellipsis
  ELSE name

\* Truncate very long names for better display
TruncateName(name) ==
  IF Len(name) > MAX_NAME_LENGTH
  THEN Prefix(name, MAX_NAME_LENGTH) \o Ellipsis
  ELSE name

\* Raises raising as well when no name selector matches (.text of None)
RaisesOnNoName(item) ==
  item.throwAt # "none" \/ ScanName(item, 1).hit = 0

\* try: ... except Exception: whether the pass over item raises
Raises(item) == item.throwAt # "none"

\* One pass of the loop body over item: the dict appended to products, what
\* the pass logged, and whether it raised instead of appending.
ProcessItem(item) ==
  LET n == ScanName(item, 1)
      u == ScanUrl(item, 1)
      a == ScanAvail(item, 1)
  IN  [ raised |-> Raises(item),
        record |-> [ name         |-> n.value,
                     display_name |-> TruncateName(n.value),
                     price        |-> ExtractPrice(item),
                     availability |-> CleanAvailability(a.value),
                     url          |-> FinalUrl(u) ],
        log    |-> [ nameHit |-> n.hit, nameTried |-> n.tried,
                     urlHit |-> u.hit, urlTried |-> u.tried,
                     availRule |-> a.rule, availNode |-> a.node,
                     availTried |-> a.tried ] ]

(***************************************************************************)
(* The pages the model runs on.                                            *)
(***************************************************************************)
\* an entry on which no selector of any field matches
Blank ==
  [ name    |-> [k \in 1..Len(name_selectors) |-> NoElem],
    url     |-> [k \in 1..Len(url_selectors) |-> NoLink],
    price   |-> NoElem,
    avail   |-> [k \in 1..Len(availability_selectors) |-> NoNodes],
    throwAt |-> "none" ]

\* the .text of the element each name selector matches
RuleNameTexts == << "Echo Dot", "  Kindle \n", "Fire TV Stick", "N/A", "Ring Cam" >>

LongText ==
  "Wireless-Noise-Cancelling-Over-Ear-Headphones-with-Bluetooth-5.3-and-40h-Battery-Life-Black-Edition"

\* every combination of name selectors matching, each with text or without
NameEntries ==
  { [Blank EXCEPT !.name =
       [k \in 1..Len(name_selectors) |->
          CASE f[k] = 0 -> NoElem
            [] f[k] = 1 -> Elem("")
            [] OTHER    -> Elem(RuleNameTexts[k])]]
    : f \in [1..Len(name_selectors) -> 0..2] }

\* names around MAX_NAME_LENGTH characters, bare and padded with whitespace
LongNameEntries ==
  { [Blank EXCEPT !.name[k] = Elem(pad \o SubSeq(LongText, 1, n) \o pad)]
    : k \in {1, Len(name_selectors)},
      n \in (MAX_NAME_LENGTH - 4)..MaxNameLen,
      pad \in {"", " \n"} }

\* what a URL selector can find on an entry: nothing, a link without href,
\* and links whose href is empty, rooted, protocol-relative, absolute,
\* relative to the page, or of another scheme
UrlFinds(k) ==
  { NoLink, BareLink, Link(""),
    Link("/dp/B0" \o ToString(k)),
    Link("//aax-us-east.amazon.com/x/" \o ToString(k)),
    Link("https://www.amazon.com/dp/B0" \o ToString(k)),
    Link("dp/B0" \o ToString(k)),
    Link("javascript:void(" \o ToString(k) \o ")") }

UrlEntries ==
  { [Blank EXCEPT !.url = <<a, b, c>>]
    : a \in UrlFinds(1), b \in UrlFinds(2), c \in UrlFinds(3) }

\* the .text of the nodes an availability selector can match
AvailTexts ==
  { "In Stock",
    "  Ships   from\n\tAmazon  ",
    "Best Seller",
    "FREE delivery Tomorrow, if you order within 2 hrs",
    "Usually dispatched within 3 to 4 days, then ships",
    "In stock  soon.\nOrder it   today!",
    "In stock soon. Order it  today!!",
    "Currently UNAVAILABLE" }

SeqsUpTo(S, n) == UNION { [1..m -> S] : m \in 0..n }

\* one availability selector matching up to MaxCands nodes
OneRuleAvailEntries ==
  { [Blank EXCEPT !.avail[k] = Nodes(ts)]
    : k \in 1..Len(availability_selectors), ts \in SeqsUpTo(AvailTexts, MaxCands) }

RuleFinds ==
  { Raising, Nodes(<< "Best Seller" >>), Nodes(<< "In Stock" >>),
    Nodes(<< "", "new", "Sold by Amazon" >>) }

\* two availability selectors matching or raising
TwoRuleAvailEntries ==
  { [Blank EXCEPT !.avail[k1] = a, !.avail[k2] = b]
    : k1 \in 1..Len(availability_selectors),
      k2 \in 2..Len(availability_selectors),
      a \in RuleFinds, b \in RuleFinds }

\* every availability selector raising or matching a node that is no
\* availability text
NoAvailEntries ==
  { [Blank EXCEPT !.avail =
       [k \in 1..Len(availability_selectors) |->
          IF k \in R THEN Raising ELSE Nodes(<< "Best Seller" >>)]]
    : R \in SUBSET (1..Len(availability_selectors)) }

\* each field matched or not, independently of the others
MixEntries ==
  { [Blank EXCEPT !.name[3] = n, !.url[1] = u, !.price = p, !.avail[1] = a]
    : n \in {NoElem, Elem("Echo Dot")},
      u \in {NoLink, Link("/dp/B0MIX")},
      p \in {NoElem, Elem(" $49.99 ")},
      a \in {NoNodes, Nodes(<< "In Stock" >>)} }

FieldEntries ==
  NameEntries \cup LongNameEntries \cup UrlEntries \cup OneRuleAvailEntries
    \cup TwoRuleAvailEntries \cup NoAvailEntries \cup MixEntries

Product(n, h, p, a) ==
  [Blank EXCEPT !.name[1] = Elem(n), !.url[1] = Link(h), !.price = Elem(p),
                !.avail[1] = Nodes(<< a >>)]

\* entries that process without error
GoodPool ==
  << Product("Echo Dot", "/dp/B01", "$49.99", "In Stock"),
     Product("Kindle", "/dp/B02", "$99.99", "Ships from Amazon"),
     Product("Fire TV Stick", "https://www.amazon.com/dp/B03", "$39.99", "Best Seller"),
     Blank >>

\* the same, and entries whose processing raises
MixedPool ==
  GoodPool \o
  << [Product("Ring Cam", "/dp/B05", "$59.99", "In Stock") EXCEPT !.throwAt = "name"],
     [Product("Blink", "/dp/B06", "$29.99", "Sold out") EXCEPT !.throwAt = "clean"],
     [Blank EXCEPT !.throwAt = "url"],
     [Product("Eero", "/dp/B08", "$69.99", "In Stock") EXCEPT !.throwAt = "price"] >>

\* n entries that cycle through pool, starting after its k-th
Pattern(pool, n, k) == [j \in 1..n |-> pool[((j + k) % Len(pool)) + 1]]

\* documents of every length up to MaxDocLen: without a raising entry, and
\* with raising entries, starting with a good entry or with a raising one
PatternDocs ==
  { Pattern(GoodPool, n, 3) : n \in 0..MaxDocLen }
    \cup
  { Pattern(MixedPool, n, k) : n \in 0..MaxDocLen, k \in {1, 3} }

Range(f) == { f[j] : j \in DOMAIN f }

\* two entries that process without error and two that raise
SmallPool == { GoodPool[1], GoodPool[4], MixedPool[5], MixedPool[6] }

SmallDocs == SeqsUpTo(SmallPool, MaxSmallDoc)

\* html_content: None, "" or the text of a page, given by its entry nodes
NoneDoc == [kind |-> "None", items |-> << >>]

EmptyDoc == [kind |-> "empty", items |-> << >>]

Page(items) == [kind |-> "page", items |-> items]

\* what fetch_search_results can return
FetchResults ==
  {NoneDoc, EmptyDoc} \cup { Page(d) : d \in PatternDocs \cup SmallDocs }

\* what extract_product_data is called with when it is called on its own
DirectInputs ==
  {NoneDoc, EmptyDoc}
    \cup { Page(d) : d \in SmallDocs \cup { << e >> : e \in FieldEntries } }

(***************************************************************************)
(* The program's state.                                                    *)
(*   mode           "main": a run of main(); "direct": extract_product_data*)
(*                  called on its own                                      *)
(*   pc             where the run is                                       *)
(*   html_content   the document fetched (or passed in)                    *)
(*   product_items  the entry nodes selected from it                       *)
(*   i              how many of them the loop has been through             *)
(*   products       the list being returned                                *)
(*   origin         for each element of products, the index in             *)
(*                  product_items of the entry it was built from           *)
(*   log            what the loop logged for each entry it went through    *)
(*   returned       extract_product_data has returned products             *)
(*   steps          the steps of main taken so far, in order               *)
(*   out            what was printed to the console, in order              *)
(*   file           product_links.txt: one block per product once written  *)
(***************************************************************************)
VARIABLES mode, pc, html_content, product_items, i, products, origin, log,
          returned, steps, out, file

vars == << mode, pc, html_content, product_items, i, products, origin, log,
           returned, steps, out, file >>

NoFile == << >>

Init ==
  /\ mode \in {"main", "direct"}
  /\ pc = "start"
  /\ html_content = NoneDoc
  /\ product_items = << >>
  /\ i = 0
  /\ products = << >>
  /\ origin = << >>
  /\ log = << >>
  /\ returned = FALSE
  /\ steps = << >>
  /\ out = << >>
  /\ file = NoFile

\* Falsy taking only None for no document
FalsyNoneOnly(html) == html.kind = "None"

\* `not html_content`
Falsy(html) == html.kind \in {"None", "empty"}

\* Capped with the slice one entry too long
CappedOffByOne(items) ==
  IF Len(items) <= MAX_PRODUCTS + 1 THEN items
  ELSE SubSeq(items, 1, MAX_PRODUCTS + 1)

\* product_items[:MAX_PRODUCTS]
Capped(items) ==
  IF Len(items) <= MAX_PRODUCTS THEN items ELSE SubSeq(items, 1, MAX_PRODUCTS)

\* ErrorAction leaving the loop at the first entry that raises
ErrorActionBreak == "break"

\* what the except clause of the loop does with an entry that raised
ErrorAction == "continue"

\* if '--help' in sys.argv: show_help(); return
ShowHelp ==
  /\ mode = "main" /\ pc = "start"
  /\ out' = Append(out, "help")
  /\ pc' = "done"
  /\ UNCHANGED << mode, html_content, product_items, i, products, origin, log,
                  returned, steps, file >>

\* the banner, then the prompt for the search term
Start ==
  /\ mode = "main" /\ pc = "start"
  /\ out' = Append(out, "banner")
  /\ pc' = "input"
  /\ UNCHANGED << mode, html_content, product_items, i, products, origin, log,
                  returned, steps, file >>

\* search_term = input(...).strip(), empty or not
ReadTerm ==
  /\ mode = "main" /\ pc = "input"
  /\ \E empty \in BOOLEAN :
       IF empty
       THEN /\ out' = Append(out, "Search term cannot be empty!")
            /\ pc' = "done"
       ELSE /\ out' = Append(out, "searching")
            /\ pc' = "fetch"
  /\ UNCHANGED << mode, html_content, product_items, i, products, origin, log,
                  returned, steps, file >>

\* html_content = fetch_search_results(search_term)
\* if not html_content: ... return
Fetch ==
  /\ mode = "main" /\ pc = "fetch"
  /\ \E r \in FetchResults :
       /\ html_content' = r
       /\ IF Falsy(r)
          THEN /\ out' = Append(out, "Failed to fetch search results.")
               /\ pc' = "done"
          ELSE /\ out' = out
               /\ pc' = "extract"
  /\ steps' = Append(steps, "fetch")
  /\ UNCHANGED << mode, product_items, i, products, origin, log, returned, file >>

\* extract_product_data(html) called on its own
CallExtract ==
  /\ mode = "direct" /\ pc = "start"
  /\ \E h \in DirectInputs : html_content' = h
  /\ pc' = "extract"
  /\ UNCHANGED << mode, product_items, i, products, origin, log, returned,
                  steps, out, file >>

\* where extract_product_data returns to
AfterExtract == IF mode = "main" THEN "display" ELSE "done"

\* extract_product_data up to its loop: the early return on no document, or
\* the parse and the selection of the entry nodes
ExtractBegin ==
  /\ pc = "extract"
  /\ steps' = Append(steps, "extract")
  /\ products' = << >>
  /\ IF Falsy(html_content)
     THEN /\ pc' = AfterExtract
          /\ product_items' = product_items
          /\ returned' = TRUE
     ELSE /\ pc' = "loop"
          /\ product_items' = html_content.items
          /\ returned' = FALSE
  /\ i' = 0
  /\ origin' = << >>
  /\ log' = << >>
  /\ UNCHANGED << mode, html_content, out, file >>

\* one pass of `for i, item in enumerate(product_items[:MAX_PRODUCTS])`
LoopStep ==
  /\ pc = "loop"
  /\ i < Len(Capped(product_items))
  /\ LET r == ProcessItem(Capped(product_items)[i + 1])
     IN  IF r.raised
         THEN /\ out' = Append(out, "Error extracting product data")
              /\ log' = Append(log, [entry |-> i + 1, raised |-> TRUE])
              /\ i' = IF ErrorAction = "continue"
                      THEN i + 1
                      ELSE Len(Capped(product_items))
              /\ UNCHANGED << products, origin >>
         ELSE /\ products' = Append(products, r.record)
              /\ origin' = Append(origin, i + 1)
              /\ log' = Append(log, [entry |-> i + 1, raised |-> FALSE] @@ r.log)
              /\ i' = i + 1
              /\ out' = out
  /\ UNCHANGED << mode, pc, html_content, product_items, returned, steps, file >>

\* the loop is over: return products
ExtractReturn ==
  /\ pc = "loop"
  /\ i >= Len(Capped(product_items))
  /\ pc' = AfterExtract
  /\ returned' = TRUE
  /\ UNCHANGED << mode, html_content, product_items, i, products, origin, log,
                  steps, out, file >>

\* the rows display_products adds to the table
Rows(ps) ==
  [r \in 1..Len(ps) |-> << ps[r].display_name, ps[r].price, ps[r].availability >>]

\* display_products(products)
Display ==
  /\ pc = "display"
  /\ steps' = Append(steps, "display")
  /\ out' = IF products = << >>
            THEN Append(out, "No products found!")
            ELSE Append(out, "table")
  /\ pc' = "save"
  /\ UNCHANGED << mode, html_content, product_items, i, products, origin, log,
                  returned, file >>

\* the blocks save_product_links writes, one per product
Blocks(ps) ==
  [r \in 1..Len(ps) |->
     [index |-> r, name |-> ps[r].name, url |-> ps[r].url,
      price |-> ps[r].price, availability |-> ps[r].availability]]

\* if products: save_product_links(products, search_term)
\* the write succeeds, or fails with an error save_product_links reports
Save ==
  /\ pc = "save"
  /\ IF products # << >>
     THEN /\ steps' = Append(steps, "save")
          /\ \E ok \in BOOLEAN :
               IF ok
               THEN /\ file' = Blocks(products)
                    /\ out' = Append(out, "Product links saved")
               ELSE /\ file' = file
                    /\ out' = Append(out, "Error saving product links")
     ELSE UNCHANGED << steps, file, out >>
  /\ pc' = "done"
  /\ UNCHANGED << mode, html_content, product_items, i, products, origin, log,
                  returned >>

\* except KeyboardInterrupt / except Exception in main: the run ends where
\* it is
Abort ==
  /\ mode = "main"
  /\ pc \in {"input", "fetch", "extract", "loop", "display", "save"}
  /\ \E msg \in {"Search cancelled by user.", "An unexpected error occurred"} :
       out' = Append(out, msg)
  /\ pc' = "done"
  /\ UNCHANGED << mode, html_content, product_items, i, products, origin, log,
                  returned, steps, file >>

Next ==
  \/ ShowHelp
  \/ Start
  \/ ReadTerm
  \/ Fetch
  \/ CallExtract
  \/ ExtractBegin
  \/ LoopStep
  \/ ExtractReturn
  \/ Display
  \/ Save
  \/ Abort

Spec == Init /\ [][Next]_vars

(***************************************************************************)
(* Vocabulary of the properties.                                           *)
(***************************************************************************)
\* the entry the r-th record was built from, and what the loop logged for it
EntryOf(r) == product_items[origin[r]]

LogOf(r) == log[origin[r]]

Records == 1..Len(products)

Min2(a, b) == IF a <= b THEN a ELSE b

\* the least element of a non-empty set of numbers
Least(S) == CHOOSE k \in S : \A j \in S : k <= j

Increasing(seq) == \A r \in 2..Len(seq) : seq[r - 1] < seq[r]

Count(seq, v) == Cardinality({ r \in 1..Len(seq) : seq[r] = v })

HasKeyword(t) ==
  \E kw \in {"stock", "deliver", "ship", "arrive", "available", "sold",
             "unavailable"} : Contains(Lower(t), kw)

\* t is in collapsed form: single spaces only, and none at either end
IsCollapsed(t) ==
  /\ \A p \in 1..Len(t) : IsSpace(Char(t, p)) => Char(t, p) = " "
  /\ \A p \in 1..(Len(t) - 1) : ~(Char(t, p) = " " /\ Char(t, p + 1) = " ")
  /\ t # "" => (Char(t, 1) # " " /\ Char(t, Len(t)) # " ")

\* t without its whitespace
RECURSIVE Squeeze(_)
Squeeze(t) ==
  IF t = "" THEN ""
  ELSE (IF IsSpace(Char(t, 1)) THEN "" ELSE Char(t, 1))
         \o Squeeze(SubSeq(t, 2, Len(t)))

\* u starts with a URL scheme: letters, then a colon
IsAbsoluteUrl(u) ==
  \E p \in 2..Len(u) :
    /\ Char(u, p) = ":"
    /\ \A q \in 1..(p - 1) :
         Char(u, q) \in {"a", "b", "c", "d", "e", "f", "g", "h", "i", "j", "k",
                         "l", "m", "n", "o", "p", "q", "r", "s", "t", "u", "v",
                         "w", "x", "y", "z"}

\* the selectors of each field that find something on entry e
NameMatches(e) == { k \in 1..Len(name_selectors) : e.name[k].m }

UrlMatches(e) == { k \in 1..Len(url_selectors) : e.url[k].m }

UrlWithHref(e) == { k \in 1..Len(url_selectors) : e.url[k].m /\ e.url[k].has }

\* the url a link gives: its href, put after the site's origin when rooted
UrlOfLink(link) ==
  IF ~link.has \/ link.href = "" THEN UrlSentinel
  ELSE IF Char(link.href, 1) = "/" THEN SiteOrigin \o link.href
  ELSE link.href

\* the accepted availability candidates of entry e, as <<selector, node>>
Accepted(e) ==
  UNION { { << k, j >> : j \in { n \in 1..Len(e.avail[k].texts) :
                                  /\ Len(Strip(e.avail[k].texts[n])) > 3
                                  /\ HasKeyword(Strip(e.avail[k].texts[n])) } }
          : k \in { m \in 1..Len(availability_selectors) : ~e.avail[m].raises } }

\* the first of them in the order of (selector, node)
FirstAccepted(e) ==
  CHOOSE c \in Accepted(e) :
    \A d \in Accepted(e) : c[1] < d[1] \/ (c[1] = d[1] /\ c[2] <= d[2])

CandidateText(e, c) == Strip(e.avail[c[1]].texts[c[2]])

Aborted ==
  \E n \in 1..Len(out) :
    out[n] \in {"Search cancelled by user.", "An unexpected error occurred"}

Printed(msg) == \E n \in 1..Len(out) : out[n] = msg

MainSteps == << "fetch", "extract", "display", "save" >>

(***************************************************************************)
(* C1.  extract_product_data returns at most MAX_PRODUCTS records, built   *)
(* only from the first MAX_PRODUCTS entry nodes, in document order; when   *)
(* there are at least MAX_PRODUCTS entries (25, say) and none of the first *)
(* MAX_PRODUCTS raises, the records are exactly those of entries 1..10.    *)
(***************************************************************************)
C1_CapAndOrder ==
  /\ Len(products) <= MAX_PRODUCTS
  /\ Len(origin) = Len(products)
  /\ \A r \in Records :
       /\ origin[r] \in 1..Min2(Len(product_items), MAX_PRODUCTS)
       /\ products[r] = ProcessItem(product_items[origin[r]]).record
  /\ Increasing(origin)
  /\ ( /\ returned
       /\ Len(product_items) >= MAX_PRODUCTS
       /\ \A j \in 1..MAX_PRODUCTS : product_items[j].throwAt = "none" )
     => origin = [j \in 1..MAX_PRODUCTS |-> j]

\* 25 entries, none raising, gave 10 records
C1_Witness ==
  /\ returned
  /\ Len(product_items) = 25
  /\ \A j \in 1..25 : product_items[j].throwAt = "none"
  /\ Len(products) = 10

(***************************************************************************)
(* C2.  An entry that raises is skipped and the loop goes on: the records  *)
(* are exactly those of the entries gone through that did not raise, in    *)
(* their order, an entry that raised left no record, and                   *)
(* extract_product_data returns only after every entry within the cap.     *)
(***************************************************************************)
C2_ThrowingEntrySkipped ==
  /\ { origin[r] : r \in Records }
       = { j \in 1..i : product_items[j].throwAt = "none" }
  /\ Increasing(origin)
  /\ Len(log) = i
  /\ \A j \in 1..Len(log) :
       log[j].entry = j /\ log[j].raised = (product_items[j].throwAt # "none")
  /\ returned => i = Min2(Len(product_items), MAX_PRODUCTS)

\* three entries, the second raising: records for the first and the third
C2_Witness ==
  /\ returned
  /\ Len(product_items) = 3
  /\ product_items[1].throwAt = "none"
  /\ product_items[2].throwAt # "none"
  /\ product_items[3].throwAt = "none"
  /\ origin = << 1, 3 >>

(***************************************************************************)
(* C3, as claimed.  The name and the url of a record come from the first   *)
(* selector, in list order, that matches an element on the entry, whatever *)
(* the element's text and whether or not it has an href; no selector after *)
(* that one is applied.                                                    *)
(***************************************************************************)
C3_FirstMatchingSelectorWins ==
  \A r \in Records :
    LET e == EntryOf(r)
        l == LogOf(r)
    IN  /\ NameMatches(e) # {} =>
             LET k == Least(NameMatches(e))
             IN  /\ l.nameHit = k /\ l.nameTried = k
                 /\ products[r].name = Strip(e.name[k].text)
        /\ UrlMatches(e) # {} =>
             LET k == Least(UrlMatches(e))
             IN  /\ l.urlTried = k
                 /\ products[r].url = UrlOfLink(e.url[k])

(***************************************************************************)
(* C3, amended.  The name comes from the first selector that matches an    *)
(* element, whatever its text; the url comes from the first selector that  *)
(* matches an element carrying an href (an element without href counts as  *)
(* no match, an empty href ends the scan and gives the sentinel); no       *)
(* selector after that one is applied, and with no such selector the field *)
(* is its sentinel.                                                        *)
(***************************************************************************)
C3_FirstUsableSelectorWins ==
  \A r \in Records :
    LET e == EntryOf(r)
        l == LogOf(r)
    IN  /\ IF NameMatches(e) # {}
           THEN LET k == Least(NameMatches(e))
                IN  /\ l.nameHit = k /\ l.nameTried = k
                    /\ products[r].name = Strip(e.name[k].text)
           ELSE /\ l.nameHit = 0 /\ l.nameTried = Len(name_selectors)
                /\ products[r].name = NameSentinel
        /\ IF UrlWithHref(e) # {}
           THEN LET k == Least(UrlWithHref(e))
                IN  /\ l.urlHit = k /\ l.urlTried = k
                    /\ products[r].url = UrlOfLink(e.url[k])
           ELSE /\ l.urlHit = 0 /\ l.urlTried = Len(url_selectors)
                /\ products[r].url = UrlSentinel

\* a link without href under the first selector, and the url of the second
C3_Witness ==
  \E r \in Records :
    /\ EntryOf(r).url[1].m /\ ~EntryOf(r).url[1].has
    /\ EntryOf(r).url[2].has
    /\ products[r].url = UrlOfLink(EntryOf(r).url[2])
    /\ products[r].url # UrlSentinel

(***************************************************************************)
(* C4.  The url of every record is an absolute URL or the sentinel         *)
(* "No URL available".                                                     *)
(***************************************************************************)
C4_UrlAbsoluteOrSentinel ==
  \A r \in Records :
    products[r].url = UrlSentinel \/ IsAbsoluteUrl(products[r].url)

(***************************************************************************)
(* C5, as claimed.  The availability of every record is the sentinel or a  *)
(* string longer than 3 characters that contains one of the keywords,      *)
(* collapsing and truncation included.                                     *)
(***************************************************************************)
C5_AvailabilityHasKeyword ==
  \A r \in Records :
    \/ products[r].availability = AvailSentinel
    \/ /\ Len(products[r].availability) > 3
       /\ HasKeyword(products[r].availability)

(***************************************************************************)
(* C5, amended.  The availability of every record is the sentinel or a     *)
(* string longer than 3 characters made from a candidate that is itself    *)
(* longer than 3 characters and contains a keyword; the field contains a   *)
(* keyword too whenever it was not truncated.                              *)
(***************************************************************************)
C5_AvailabilityFromKeywordText ==
  \A r \in Records :
    \/ products[r].availability = AvailSentinel
    \/ /\ Len(products[r].availability) > 3
       /\ \E c \in Accepted(EntryOf(r)) :
            LET t == Join(" ", Split(CandidateText(EntryOf(r), c)))
            IN  \/ products[r].availability = t
                \/ /\ Len(t) > 30
                   /\ products[r].availability = SubSeq(t, 1, 30) \o "..."
       /\ Len(products[r].availability) <= 30
            => HasKeyword(products[r].availability)

\* a truncated availability that has lost its keyword
C5_Witness ==
  \E r \in Records :
    /\ products[r].availability # AvailSentinel
    /\ Len(products[r].availability) = 33
    /\ ~HasKeyword(products[r].availability)

(***************************************************************************)
(* C6.  With t the accepted text after its whitespace runs are collapsed   *)
(* to single spaces: the availability is the first 30 characters of t and  *)
(* "..." (33 characters) when t is longer than 30, and t when it is not;   *)
(* the sentinel is left as it is; no availability is longer than 33.       *)
(***************************************************************************)
C6_AvailabilityTruncation ==
  \A r \in Records :
    LET l == LogOf(r)
        a == products[r].availability
    IN  /\ Len(a) <= 33
        /\ IF l.availRule = 0
           THEN a = "No availability info"
           ELSE LET c == CandidateText(EntryOf(r), << l.availRule, l.availNode >>)
                    t == Join(" ", Split(c))
                IN  /\ IsCollapsed(t)
                    /\ Squeeze(t) = Squeeze(c)
                    /\ Len(t) > 30 =>
                         (a = SubSeq(t, 1, 30) \o "..." /\ Len(a) = 33)
                    /\ Len(t) <= 30 => a = t

\* a text of 31 characters once collapsed, truncated; and one of 30, kept
C6_Witness ==
  /\ \E r \in Records :
       /\ LogOf(r).availRule # 0
       /\ Len(Join(" ", Split(CandidateText(EntryOf(r),
                 << LogOf(r).availRule, LogOf(r).availNode >>)))) = 31
       /\ Len(products[r].availability) = 33

(***************************************************************************)
(* C7.  display_name is at most 73 characters: it is name when name has at *)
(* most 70 characters, and the first 70 characters of name and "..." when  *)
(* it has more; name is the full text of the matched element.              *)
(***************************************************************************)
C7_DisplayName ==
  \A r \in Records :
    LET n == products[r].name
        d == products[r].display_name
    IN  /\ Len(d) <= 73
        /\ Len(n) <= 70 => d = n
        /\ Len(n) > 70 => d = SubSeq(n, 1, 70) \o "..."
        /\ LogOf(r).nameHit # 0 =>
             n = Strip(EntryOf(r).name[LogOf(r).nameHit].text)

\* a name of 74 characters shown in 73, and one of 70 shown whole
C7_Witness ==
  \E r \in Records :
    /\ Len(products[r].name) = 74
    /\ Len(products[r].display_name) = 73

(***************************************************************************)
(* C8.  A field none of whose selectors matches is its sentinel, whatever  *)
(* the other fields matched, and the entry still gives its record: an      *)
(* entry on which nothing matches gives "N/A", "N/A", "No URL available"   *)
(* and "No availability info".                                             *)
(***************************************************************************)
C8_SentinelsNotErrors ==
  /\ \A j \in 1..i :
       product_items[j].throwAt = "none"
         => Cardinality({ r \in Records : origin[r] = j }) = 1
  /\ \A r \in Records :
       LET e == EntryOf(r)
       IN  /\ NameMatches(e) = {} => products[r].name = "N/A"
           /\ UrlMatches(e) = {} => products[r].url = "No URL available"
           /\ ~e.price.m => products[r].price = "N/A"
           /\ (\A k \in 1..Len(availability_selectors) : e.avail[k].texts = << >>)
                => products[r].availability = "No availability info"

\* the record of an entry on which nothing matches
C8_Witness ==
  \E r \in Records :
    /\ EntryOf(r) = Blank
    /\ products[r].name = "N/A" /\ products[r].price = "N/A"
    /\ products[r].url = "No URL available"
    /\ products[r].availability = "No availability info"

(***************************************************************************)
(* C9.  The availability comes from the first accepted candidate in the    *)
(* order of (selector, node): rejected nodes and raising selectors are     *)
(* passed over, no selector after the accepting one is evaluated, and the  *)
(* sentinel is the result exactly when no candidate is accepted.           *)
(***************************************************************************)
C9_FirstAcceptedCandidate ==
  \A r \in Records :
    LET e == EntryOf(r)
        l == LogOf(r)
    IN  /\ IF Accepted(e) = {}
           THEN /\ l.availRule = 0 /\ l.availNode = 0
                /\ l.availTried = Len(availability_selectors)
                /\ products[r].availability = AvailSentinel
           ELSE LET c == FirstAccepted(e)
                IN  /\ l.availRule = c[1] /\ l.availNode = c[2]
                    /\ l.availTried = c[1]
                    /\ products[r].availability
                         = CleanAvailability(CandidateText(e, c))
        /\ (products[r].availability = AvailSentinel) = (Accepted(e) = {})

\* a selector that raises, then one whose first nodes are rejected: the
\* availability is that of its first accepted node
C9_Witness ==
  \E r \in Records :
    /\ \E k \in 1..(LogOf(r).availRule - 1) : EntryOf(r).avail[k].raises
    /\ LogOf(r).availNode > 1
    /\ products[r].availability # AvailSentinel

(***************************************************************************)
(* C10, as claimed.  A run of main takes its steps in the order fetch,     *)
(* extract, display, save; the file is written only after the display of a *)
(* non-empty result; a failed fetch leads to nothing more; and when the    *)
(* fetched document is empty or has no entry node, the run shows           *)
(* "No products found!" and does not save.                                 *)
(***************************************************************************)
StepsInOrder ==
  /\ Len(steps) <= Len(MainSteps)
  /\ \A n \in 1..Len(steps) : steps[n] = MainSteps[n]
  /\ Count(steps, "save") = 1 => products # << >>
  /\ file # NoFile => (Count(steps, "display") = 1 /\ products # << >>)

C10_NoProductsSignal ==
  mode = "main" =>
    /\ StepsInOrder
    /\ (Count(steps, "fetch") = 1 /\ html_content.kind = "None")
         => (steps = << "fetch" >> /\ pc = "done")
    /\ ( /\ pc = "done" /\ ~Aborted /\ Count(steps, "fetch") = 1
         /\ (html_content.kind = "empty"
               \/ (html_content.kind = "page" /\ html_content.items = << >>)) )
       => /\ products = << >>
          /\ Printed("No products found!")
          /\ Count(steps, "save") = 0

(***************************************************************************)
(* C10, amended.  As claimed for a fetched page that has no entry node (or *)
(* gives no record); an empty document is taken by main for a failed       *)
(* fetch, as None is: "Failed to fetch search results." and no extraction, *)
(* display or save.  Called on its own with None or an empty document,     *)
(* extract_product_data returns an empty list.                             *)
(***************************************************************************)
C10_PipelineOrder ==
  /\ mode = "main" =>
       /\ StepsInOrder
       /\ (Count(steps, "fetch") = 1 /\ html_content.kind \in {"None", "empty"})
            => /\ steps = << "fetch" >> /\ pc = "done"
               /\ Printed("Failed to fetch search results.")
               /\ ~Printed("No products found!")
       /\ ( /\ pc = "done" /\ ~Aborted /\ Count(steps, "fetch") = 1
            /\ html_content.kind = "page" )
          => /\ returned
             /\ steps \in { << "fetch", "extract", "display" >>, MainSteps }
             /\ Printed("No products found!") = (products = << >>)
             /\ (Count(steps, "save") = 1) = (products # << >>)
             /\ html_content.items = << >> => products = << >>
  /\ mode = "direct" =>
       /\ steps \in { << >>, << "extract" >> }
       /\ ( /\ Count(steps, "extract") = 1
            /\ html_content.kind \in {"None", "empty"} )
          => (returned /\ products = << >> /\ pc = "done")

\* a page without entry nodes, run to the end: the signal, and no save
C10_Witness ==
  /\ mode = "main" /\ pc = "done" /\ ~Aborted
  /\ html_content.kind = "page" /\ html_content.items = << >>
  /\ Printed("No products found!")
  /\ steps = << "fetch", "extract", "display" >>

====
